---- MODULE Spec2Model ----
(***************************************************************************)
(* The authentication / session lifecycle manager of src/hooks/useAuth.tsx *)
(* (AuthProvider).  The four React state cells (user, session, loading,    *)
(* error) and the persisted "current_user_id" entry are the shared state;  *)
(* every async function of the provider is a task that advances from one   *)
(* await to the next.  All tasks run on one event loop, so the code        *)
(* between two awaits is one atomic step.                                  *)
(***************************************************************************)
EXTENDS Integers, Sequences, FiniteSets, TLC

\* ---------------------------------------------------------------- bounds
\* Tasks ever started in one run: the startup task, the imperative calls
\* and the notification handlers.
MaxTasks == 3
\* Session-change notifications the backend has emitted and not yet delivered.
MaxQueue == 1

\* ------------------------------------------------------- values and nulls
\* JavaScript null / undefined for object-valued cells.
None == [none |-> TRUE]
\* A present nullable scalar or list of a backend row.
Some(v) == [val |-> v]
\* A principal without an email (anonymous).
NoEmail == "null"
\* What "current_user_id" reads when the key is absent.
NoItem == "null"

\* The principals the backend can authenticate: one anonymous, one by email.
Emails == {"a@x.com"}
AnonPrincipal == [id |-> "auth-anon", email |-> NoEmail]
EmailPrincipal(email) == [id |-> "auth-a", email |-> email]
Principals == {AnonPrincipal} \cup {EmailPrincipal(e) : e \in Emails}
\* A backend session always carries its principal (Session.user).
SessionOf(p) == [user |-> p]
Sessions == {SessionOf(p) : p \in Principals}

\* The users.id the create_user_with_profile procedure keeps for an auth id
\* (the procedure is idempotent: one row per principal).
DbIdOf(authId) == IF authId = "auth-anon" THEN "db-anon" ELSE "db-a"

\* Failures the backend auth surface reports: with and without a code and a
\* message ("" is the absent, falsy value of error.code / error.message).
BackendErrors ==
    { [message |-> "Invalid login credentials", code |-> "invalid_credentials"],
      [message |-> "", code |-> ""] }

\* ------------------------------------------------- transformDatabaseUser
\* x || d for a nullable number: null, undefined and 0 are falsy.
OrNum(x, d) == IF x = None \/ x.val = 0 THEN d ELSE x.val
\* x || d for a nullable string: null, undefined and "" are falsy.
OrStr(x, d) == IF x = None \/ x.val = "" THEN d ELSE x.val
\* x || d for a nullable array or object: only null / undefined are falsy.
OrObj(x, d) == IF x = None THEN d ELSE x.val

titles ==
    << "Health Novice", "Wellness Explorer", "Supplement Scholar",
       "Nutrition Navigator", "Health Guardian", "Wellness Warrior",
       "Supplement Sage", "Health Master", "Wellness Wizard",
       "PharmaGuide Legend" >>

Min(a, b) == IF a < b THEN a ELSE b

\* titles[Math.min(level, titles.length - 1)]: the level used as the index.
getLevelTitle_LevelAsIndex(level) ==
    LET idx == Min(level, Len(titles) - 1)
    IN  IF idx >= 0 THEN titles[idx + 1] ELSE "undefined"

\* titles[Math.min(level - 1, titles.length - 1)], a 0-based index; an index
\* below 0 reads undefined.
getLevelTitle(level) ==
    LET idx == Min(level - 1, Len(titles) - 1)
    IN  IF idx >= 0 THEN titles[idx + 1] ELSE "undefined"

DefaultNotifications ==
    [push_enabled |-> TRUE, email_enabled |-> TRUE, reminder_frequency |-> "daily"]

transformProfile(profile) ==
    IF profile # None
    THEN [ firstName   |-> profile.first_name,
           lastName    |-> profile.last_name,
           age         |-> profile.age,
           gender      |-> profile.gender,
           healthGoals |-> OrObj(profile.health_goals, <<>>),
           conditions  |-> OrObj(profile.conditions, <<>>),
           medications |-> OrObj(profile.medications, <<>>),
           allergies   |-> OrObj(profile.allergies, <<>>),
           genetics    |-> OrObj(profile.genetics, None) ]
    ELSE [ firstName   |-> None,
           lastName    |-> None,
           age         |-> None,
           gender      |-> None,
           healthGoals |-> <<>>,
           conditions  |-> <<>>,
           medications |-> <<>>,
           allergies   |-> <<>>,
           genetics    |-> None ]

transformPreferences(preferences) ==
    IF preferences # None
    THEN [ aiResponseStyle |-> OrStr(preferences.ai_response_style, "concise"),
           budgetRange     |-> OrStr(preferences.budget_range, "mid"),
           primaryFocus    |-> OrStr(preferences.primary_focus, "safety"),
           notifications   |-> OrObj(preferences.notifications, DefaultNotifications) ]
    ELSE [ aiResponseStyle |-> "concise",
           budgetRange     |-> "mid",
           primaryFocus    |-> "safety",
           notifications   |-> DefaultNotifications ]

\* A transform that gives a user without a points row the points of a new one.
transformPoints_ZeroWhenAbsent(points) ==
    IF points # None
    THEN [ total       |-> OrNum(points.total_points, 0),
           level       |-> OrNum(points.level, 1),
           levelTitle  |-> getLevelTitle(OrNum(points.level, 1)),
           nextLevelAt |-> ((OrNum(points.total_points, 0) \div 100) + 1) * 100 ]
    ELSE [ total |-> 0, level |-> 1, levelTitle |-> getLevelTitle(1),
           nextLevelAt |-> 100 ]

transformPoints(points) ==
    IF points # None
    THEN [ total       |-> OrNum(points.total_points, 0),
           level       |-> OrNum(points.level, 1),
           levelTitle  |-> getLevelTitle(OrNum(points.level, 1)),
           nextLevelAt |-> ((OrNum(points.total_points, 0) \div 100) + 1) * 100 ]
    ELSE None

transformStreaks(streaks) ==
    IF streaks # None
    THEN [ current      |-> OrNum(streaks.current_streak, 0),
           longest      |-> OrNum(streaks.longest_streak, 0),
           lastActivity |-> streaks.last_activity_date ]
    ELSE None

transformDatabaseUser(dbUser) ==
    IF dbUser = None THEN None
    ELSE [ id           |-> dbUser.id,
           email        |-> dbUser.email,
           is_anonymous |-> dbUser.is_anonymous,
           profile      |-> transformProfile(dbUser.profile),
           preferences  |-> transformPreferences(dbUser.preferences),
           points       |-> transformPoints(dbUser.points),
           streaks      |-> transformStreaks(dbUser.streaks),
           createdAt    |-> dbUser.created_at,
           updatedAt    |-> dbUser.updated_at ]

\* The rows the users query can return for a principal: the row the
\* procedure created, before and after a user_points row exists for it.
PointsRows == {None, [total_points |-> Some(250), level |-> Some(3)]}
DbRow(p, points) ==
    [ id           |-> DbIdOf(p.id),
      auth_id      |-> p.id,
      email        |-> p.email,
      is_anonymous |-> (p.email = NoEmail),
      display_name |-> None,
      created_at   |-> "t0",
      updated_at   |-> "t0",
      profile      |-> None,
      preferences  |-> None,
      points       |-> points,
      streaks      |-> None ]
DbRowsFor(authId) ==
    {DbRow(p, pts) : p \in {q \in Principals : q.id = authId}, pts \in PointsRows}

\* --------------------------------------- rows the transform is checked on
\* The largest level and the largest point total of a user_points row.
MaxLevel == 12
MaxPoints == 250

\* A column that is null or holds a value of S.
Nullable(S) == {None} \cup {Some(v) : v \in S}

\* user_points rows: each column null or a number (0 is the falsy number).
PointsRecords ==
    [ total_points : Nullable(0..MaxPoints), level : Nullable(0..MaxLevel) ]

\* user_profiles rows: every column null or present.
ProfileRecords ==
    [ first_name   : Nullable({"Ann"}),
      last_name    : Nullable({"Lee"}),
      age          : Nullable({30}),
      gender       : {None},
      health_goals : Nullable({<<"sleep">>}),
      conditions   : Nullable({<<>>, <<"asthma">>}),
      medications  : Nullable({<<"ibuprofen">>}),
      allergies    : Nullable({<<"pollen">>}),
      genetics     : Nullable({[apoe |-> "e3"]}) ]

\* user_preferences rows: every column null, empty or present.
PreferencesRecords ==
    [ ai_response_style : Nullable({"", "detailed"}),
      budget_range      : Nullable({"", "premium"}),
      primary_focus     : Nullable({"", "efficacy"}),
      notifications     : Nullable({[push_enabled |-> FALSE,
                                     email_enabled |-> TRUE,
                                     reminder_frequency |-> "weekly"]}) ]

\* user_streaks rows.
StreaksRecords ==
    [ current_streak     : Nullable({0, 4}),
      longest_streak     : Nullable({0, 9}),
      last_activity_date : Nullable({"2024-01-01"}) ]

\* A sub-record that is present with every column null.
NullColumns(records) ==
    CHOOSE r \in records : \A f \in DOMAIN r : r[f] = None

\* The rows the users query can return for principal p: every combination of
\* present and absent sub-records, and for each sub-record every combination
\* of its columns (the four sub-records are transformed independently).
TransformRows(p) ==
    LET base == DbRow(p, None)
    IN       {[base EXCEPT !.points = x] : x \in PointsRecords}
       \cup  {[base EXCEPT !.profile = x] : x \in ProfileRecords}
       \cup  {[base EXCEPT !.preferences = x] : x \in PreferencesRecords}
       \cup  {[base EXCEPT !.streaks = x] : x \in StreaksRecords}
       \cup  {[base EXCEPT !.profile = a, !.preferences = b,
                           !.points = c, !.streaks = d] :
                 a \in {None, NullColumns(ProfileRecords)},
                 b \in {None, NullColumns(PreferencesRecords)},
                 c \in {None, NullColumns(PointsRecords)},
                 d \in {None, NullColumns(StreaksRecords)}}

\* ------------------------------------------------------------------ state
VARIABLES
    user,            \* useState<User | null>(null)
    session,         \* useState<Session | null>(null)
    loading,         \* useState(true)
    error,           \* useState<AuthError | null>(null)
    stored,          \* the value under "current_user_id", NoItem when absent
    backendSession,  \* the session the backend currently holds for this client
    notifs,          \* session-change notifications emitted, not yet delivered
    tasks            \* every async call started so far, in start order

vars == <<user, session, loading, error, stored, backendSession, notifs, tasks>>

SignInKinds == {"signInAnonymously", "signInWithEmail", "signUpWithEmail"}
\* The operations that write loading.
LoadingKinds == SignInKinds \cup {"signOut", "initializeAuth"}

\* A task is one invocation of an async function of the provider:
\*   kind     the function; pc  the await it is suspended at, or "done";
\*   p        the principal it works for (authUser), None when it has none;
\*   profile  the local `profile` (the materialized User), None when null;
\*   res      "pending", then "returned" or "raised" (what its caller sees);
\*   caught   whether its own catch block ran;
\*   calls    the backend and storage calls it has issued, in order;
\*   rpcArgs  the arguments of its create_user_with_profile call;
\*   dbUser   the row of the users query it awaited (`dbUser`), None before;
\*   seen     the kinds of the tasks that were in flight while it ran.
NewTask(kind, pc, p, calls) ==
    [ kind |-> kind, pc |-> pc, p |-> p, profile |-> None, res |-> "pending",
      caught |-> FALSE, calls |-> calls, rpcArgs |-> None, dbUser |-> None,
      seen |-> {} ]

Active(t) == t.pc # "done"
ActiveIds == {i \in DOMAIN tasks : Active(tasks[i])}
Tag(t) ==
    IF t.kind = "onAuthStateChange" /\ t.p = None
    THEN "onAuthStateChange(null)" ELSE t.kind

\* Start a task next to the ones in flight.
Spawn(new) ==
    LET running == {Tag(tasks[j]) : j \in ActiveIds}
        marked  == [j \in DOMAIN tasks |->
                      IF Active(tasks[j])
                      THEN [tasks[j] EXCEPT !.seen = @ \cup {Tag(new)}]
                      ELSE tasks[j]]
    IN  Append(marked, [new EXCEPT !.seen = running])

CanSpawn == Len(tasks) < MaxTasks

\* The task ends: its promise settles and its locals are gone.
Finish(t, res) ==
    [t EXCEPT !.pc = "done", !.res = res,
              !.p = None, !.profile = None, !.rpcArgs = None,
              !.dbUser = None]
\* The task ends through its catch block: startup logs and resolves, a
\* sign-in / sign-up / sign-out rethrows; a handler has no catch and rejects.
Fail(t) ==
    [Finish(t, IF t.kind = "initializeAuth" THEN "returned" ELSE "raised")
       EXCEPT !.caught = (t.kind \in LoadingKinds)]

\* The procedure call with p_is_anonymous: false for every principal.
RpcArgs_NeverAnonymous(authUser) ==
    [ p_auth_id      |-> authUser.id,
      p_email        |-> authUser.email,
      p_is_anonymous |-> FALSE ]

\* supabase.rpc(CREATE_USER_WITH_PROFILE, {...}) as createOrUpdateUser issues it.
RpcArgs(authUser) ==
    [ p_auth_id      |-> authUser.id,
      p_email        |-> authUser.email,
      p_is_anonymous |-> (authUser.email = NoEmail) ]

\* A task enters createOrUpdateUser(authUser): the procedure call is issued.
CallCreateOrUpdateUser(t, authUser) ==
    [t EXCEPT !.pc = "rpc", !.p = authUser,
              !.calls = Append(@, "rpc"), !.rpcArgs = RpcArgs(authUser)]

\* The error the catch block of a sign-in / sign-up / sign-out stores.
DefaultMessage(kind) ==
    CASE kind = "signInAnonymously" -> "Failed to sign in anonymously"
      [] kind = "signInWithEmail"   -> "Failed to sign in"
      [] kind = "signUpWithEmail"   -> "Failed to sign up"
      [] kind = "signOut"           -> "Failed to sign out"
\* The sign-out catch block copied from signInWithEmail with its code.
DefaultCode_SignOutAsSignIn(kind) ==
    CASE kind = "signInAnonymously" -> "auth/anonymous-failed"
      [] kind = "signInWithEmail"   -> "auth/sign-in-failed"
      [] kind = "signUpWithEmail"   -> "auth/sign-up-failed"
      [] kind = "signOut"           -> "auth/sign-in-failed"
DefaultCode(kind) ==
    CASE kind = "signInAnonymously" -> "auth/anonymous-failed"
      [] kind = "signInWithEmail"   -> "auth/sign-in-failed"
      [] kind = "signUpWithEmail"   -> "auth/sign-up-failed"
      [] kind = "signOut"           -> "auth/sign-out-failed"
\* The catch block ignoring the code the backend supplied.
AuthErrorOf_IgnoresBackendCode(kind, e) ==
    [ message       |-> IF e.message = "" THEN DefaultMessage(kind) ELSE e.message,
      code          |-> DefaultCode(kind),
      originalError |-> e ]
AuthErrorOf(kind, e) ==
    [ message       |-> IF e.message = "" THEN DefaultMessage(kind) ELSE e.message,
      code          |-> IF e.code = "" THEN DefaultCode(kind) ELSE e.code,
      originalError |-> e ]

\* What safeStorage raises when the local write fails.
StorageError == [message |-> "storage unavailable", code |-> ""]

\* The values the state can hold: user is null or a transformed users row,
\* session null or a backend session, error null or what a catch block
\* stored, the key absent or a users.id.
Kinds == LoadingKinds \cup {"onAuthStateChange", "refreshUser"}
Users == {transformDatabaseUser(row) : row \in UNION {DbRowsFor(p.id) : p \in Principals}}
TypeOK ==
    /\ user \in Users \cup {None}
    /\ session \in Sessions \cup {None}
    /\ loading \in BOOLEAN
    /\ error \in {None} \cup
         {AuthErrorOf(k, e) : k \in SignInKinds \cup {"signOut"},
                              e \in BackendErrors \cup {StorageError}}
    /\ stored \in {NoItem} \cup {DbIdOf(p.id) : p \in Principals}
    /\ backendSession \in Sessions \cup {None}
    /\ notifs \in Seq(Sessions \cup {None}) /\ Len(notifs) <= MaxQueue
    /\ Len(tasks) \in 1..MaxTasks
    /\ \A i \in DOMAIN tasks :
          /\ tasks[i].kind \in Kinds
          /\ tasks[i].res \in {"pending", "returned", "raised"}
          /\ (tasks[i].pc = "done") = (tasks[i].res # "pending")
          /\ tasks[i].profile \in Users \cup {None}
    /\ tasks[1].kind = "initializeAuth"

\* ------------------------------------------------------------------- Init
\* The provider is mounted: the four cells hold their useState defaults, the
\* startup task is suspended at getSession(), the subscription is in place.
\* The backend may hold a session restored from an earlier launch, whose
\* user id that launch persisted.
Init ==
    /\ user = None
    /\ session = None
    /\ loading = TRUE
    /\ error = None
    /\ backendSession \in Sessions \cup {None}
    /\ stored \in {NoItem} \cup
                  (IF backendSession = None THEN {}
                   ELSE {DbIdOf(backendSession.user.id)})
    /\ notifs = <<>>
    /\ tasks = << NewTask("initializeAuth", "getSession", None, <<"getSession">>) >>

\* signOut without its finally block.
LoadingAfter_NoFinallyInSignOut(t) ==
    IF t.kind \in LoadingKinds \ {"signOut"} THEN FALSE ELSE loading

\* Startup clearing loading on its success path only, not in a finally.
LoadingAfter_NoFinallyInStartup(t) ==
    IF t.kind \in SignInKinds \cup {"signOut"}
         \/ (t.kind = "initializeAuth" /\ t.pc = "setItem")
    THEN FALSE ELSE loading

\* The finally block of the operation a task runs: setLoading(false) in
\* startup and in sign-in / sign-up / sign-out, nothing in the others.
LoadingAfter(t) == IF t.kind \in LoadingKinds THEN FALSE ELSE loading

\* ------------------------------------------------- startup (useEffect)
\* initializeAuth resumes from `await supabase.auth.getSession()`.
InitGetSessionResolve ==
    /\ tasks[1].pc = "getSession"
    /\ \/ \* currentSession?.user: setSession, enter createOrUpdateUser
          /\ backendSession # None
          /\ session' = backendSession
          /\ tasks' = [tasks EXCEPT ![1] =
                         CallCreateOrUpdateUser(@, backendSession.user)]
          /\ UNCHANGED loading
       \/ \* no session: finally
          /\ backendSession = None
          /\ loading' = LoadingAfter(tasks[1])
          /\ tasks' = [tasks EXCEPT ![1] = Finish(@, "returned")]
          /\ UNCHANGED session
       \/ \* getSession threw: caught and logged; finally
          /\ loading' = LoadingAfter(tasks[1])
          /\ tasks' = [tasks EXCEPT ![1] = Fail(@)]
          /\ UNCHANGED session
    /\ UNCHANGED <<user, error, stored, backendSession, notifs>>

\* ------------------------------------- onAuthStateChange(event, session)
\* The else branch with setUser(null) left out.
NoSessionClear_KeepsUser ==
    /\ session' = None
    /\ UNCHANGED user

\* The else branch of the handler: setSession(null); setUser(null).
NoSessionClear ==
    /\ session' = None
    /\ user' = None

\* The subscription delivers the oldest pending notification: the handler
\* runs up to its first await.
Dispatch ==
    /\ notifs # <<>>
    /\ CanSpawn
    /\ LET s == Head(notifs) IN
         IF s # None
         THEN /\ session' = s
              /\ tasks' = Spawn(CallCreateOrUpdateUser(
                            NewTask("onAuthStateChange", "start", None, <<>>), s.user))
              /\ UNCHANGED user
         ELSE /\ NoSessionClear
              /\ tasks' = Spawn(NewTask("onAuthStateChange", "removeItem", None,
                                        <<"removeItem">>))
    /\ notifs' = Tail(notifs)
    /\ UNCHANGED <<loading, error, stored, backendSession>>

\* ------------------------------------------------- imperative operations
\* The entry with setLoading(true) left out.
EnterOperation_KeepsLoading ==
    /\ UNCHANGED loading
    /\ error' = None

\* An operation that writes loading = false where it should write true.
EnterOperation_ClearsLoading ==
    /\ loading' = FALSE
    /\ error' = None

\* The entry of sign-in / sign-up / sign-out: setLoading(true); setError(null).
EnterOperation ==
    /\ loading' = TRUE
    /\ error' = None

\* The operation is called and runs up to its backend call.
StartSignInAnonymously ==
    /\ CanSpawn
    /\ EnterOperation
    /\ tasks' = Spawn(NewTask("signInAnonymously", "auth", None, <<"auth">>))
    /\ UNCHANGED <<user, session, stored, backendSession, notifs>>

StartSignInWithEmail ==
    /\ CanSpawn
    /\ \E email \in Emails :
         tasks' = Spawn(NewTask("signInWithEmail", "auth", EmailPrincipal(email),
                                <<"auth">>))
    /\ EnterOperation
    /\ UNCHANGED <<user, session, stored, backendSession, notifs>>

StartSignUpWithEmail ==
    /\ CanSpawn
    /\ \E email \in Emails :
         tasks' = Spawn(NewTask("signUpWithEmail", "auth", EmailPrincipal(email),
                                <<"auth">>))
    /\ EnterOperation
    /\ UNCHANGED <<user, session, stored, backendSession, notifs>>

StartSignOut ==
    /\ CanSpawn
    /\ EnterOperation
    /\ tasks' = Spawn(NewTask("signOut", "auth", None, <<"auth">>))
    /\ UNCHANGED <<user, session, stored, backendSession, notifs>>

\* A backend that answers every sign-in with the anonymous principal.
AuthUserOf_AlwaysAnonymous(t) == AnonPrincipal

\* The principal the backend answers a sign-in / sign-up call with.
AuthUserOf(t) == IF t.kind = "signInAnonymously" THEN AnonPrincipal ELSE t.p

\* A sign-in / sign-up resumes from its backend auth call.
SignInAuthResolve(i) ==
    /\ tasks[i].kind \in SignInKinds
    /\ tasks[i].pc = "auth"
    /\ \/ \* { error }: catch stores the error and rethrows; finally
          \E e \in BackendErrors :
            /\ error' = AuthErrorOf(tasks[i].kind, e)
            /\ loading' = LoadingAfter(tasks[i])
            /\ tasks' = [tasks EXCEPT ![i] = Fail(@)]
            /\ UNCHANGED <<backendSession, notifs>>
       \/ \* { data: { user } }: the backend opened a session and announces it
          /\ Len(notifs) < MaxQueue
          /\ backendSession' = SessionOf(AuthUserOf(tasks[i]))
          /\ notifs' = Append(notifs, SessionOf(AuthUserOf(tasks[i])))
          /\ tasks' = [tasks EXCEPT ![i] =
                         CallCreateOrUpdateUser(@, AuthUserOf(tasks[i]))]
          /\ UNCHANGED <<loading, error>>
       \/ \* { data: { user: null } }: nothing to materialize; finally
          /\ loading' = LoadingAfter(tasks[i])
          /\ tasks' = [tasks EXCEPT ![i] = Finish(@, "returned")]
          /\ UNCHANGED <<error, backendSession, notifs>>
    /\ UNCHANGED <<user, session, stored>>

\* signOut with setSession(null) left out.
SignOutClear_KeepsSession ==
    /\ user' = None
    /\ UNCHANGED session

\* The success path of signOut: setUser(null); setSession(null).
SignOutClear ==
    /\ user' = None
    /\ session' = None

\* signOut resumes from `await supabase.auth.signOut()`.
SignOutAuthResolve(i) ==
    /\ tasks[i].kind = "signOut"
    /\ tasks[i].pc = "auth"
    /\ \/ \E e \in BackendErrors :
            /\ error' = AuthErrorOf("signOut", e)
            /\ loading' = LoadingAfter(tasks[i])
            /\ tasks' = [tasks EXCEPT ![i] = Fail(@)]
            /\ UNCHANGED <<user, session, backendSession, notifs>>
       \/ /\ Len(notifs) < MaxQueue
          /\ backendSession' = None
          /\ notifs' = Append(notifs, None)
          /\ SignOutClear
          /\ tasks' = [tasks EXCEPT ![i] =
                         [@ EXCEPT !.pc = "removeItem",
                                   !.calls = Append(@, "removeItem")]]
          /\ UNCHANGED <<loading, error>>
    /\ UNCHANGED stored

\* ---------------------------------------------------- createOrUpdateUser
\* The caller keeps the previous user when createOrUpdateUser returned null
\* (`if (profile) setUser(profile)`).
MaterializationFailed_KeepsUser(i) ==
    /\ UNCHANGED user
    /\ loading' = LoadingAfter(tasks[i])
    /\ tasks' = [tasks EXCEPT ![i] = Finish(@, "returned")]

\* createOrUpdateUser returned null to its caller, which runs on without an
\* await: setUser(null), `if (profile)` skipped, the caller's finally.
MaterializationFailed(i) ==
    /\ user' = None
    /\ loading' = LoadingAfter(tasks[i])
    /\ tasks' = [tasks EXCEPT ![i] = Finish(@, "returned")]

\* createOrUpdateUser resumes from `await supabase.rpc(...)`.
RpcResolve(i) ==
    /\ tasks[i].pc = "rpc"
    /\ \/ \* rpcError: thrown, caught, logged; null is returned
          MaterializationFailed(i)
       \/ \* no error: fetchUserWithRelations(authUser.id) is issued
          /\ tasks' = [tasks EXCEPT ![i] =
                         [@ EXCEPT !.pc = "fetch", !.calls = Append(@, "fetch")]]
          /\ UNCHANGED <<user, loading>>
    /\ UNCHANGED <<session, error, stored, backendSession, notifs>>

\* createOrUpdateUser resumes from `await fetchUserWithRelations(...)`, the
\* query answering with an error, with no row, or with one of `rows`.
FetchResolveFrom(i, rows) ==
    /\ tasks[i].kind # "refreshUser"
    /\ tasks[i].pc = "fetch"
    /\ \/ \* error or no row: fetch returns null, createOrUpdateUser null
          MaterializationFailed(i)
       \/ \* one row: transformed, returned; the caller stores it with
          \* setUser(profile) and issues safeStorage.setItem
          \E row \in rows :
            /\ user' = transformDatabaseUser(row)
            /\ tasks' = [tasks EXCEPT ![i] =
                           [@ EXCEPT !.pc = "setItem",
                                     !.dbUser = row,
                                     !.profile = transformDatabaseUser(row),
                                     !.calls = Append(@, "setItem")]]
            /\ UNCHANGED loading
    /\ UNCHANGED <<session, error, stored, backendSession, notifs>>

\* The query answers with a row of the principal the task works for.
FetchResolve(i) == FetchResolveFrom(i, DbRowsFor(tasks[i].p.id))

\* ------------------------------------------------------------ safeStorage
\* setItem("current_user_id", profile.email).
PersistedIdOf_Email(profile) == profile.email

\* The value setItem("current_user_id", profile.id) writes.
PersistedIdOf(profile) == profile.id

\* The startup's catch block storing the failure instead of logging it.
SetItemResolve_StartupStoresError(i) ==
    /\ tasks[i].pc = "setItem"
    /\ \/ /\ stored' = PersistedIdOf(tasks[i].profile)
          /\ loading' = LoadingAfter(tasks[i])
          /\ tasks' = [tasks EXCEPT ![i] = Finish(@, "returned")]
          /\ UNCHANGED error
       \/ /\ error' = IF tasks[i].kind \in SignInKinds
                      THEN AuthErrorOf(tasks[i].kind, StorageError)
                      ELSE AuthErrorOf("signInAnonymously", StorageError)
          /\ loading' = LoadingAfter(tasks[i])
          /\ tasks' = [tasks EXCEPT ![i] = Fail(@)]
          /\ UNCHANGED stored
    /\ UNCHANGED <<user, session, backendSession, notifs>>

\* A caller of createOrUpdateUser resumes from `await safeStorage.setItem`.
SetItemResolve(i) ==
    /\ tasks[i].pc = "setItem"
    /\ \/ \* written
          /\ stored' = PersistedIdOf(tasks[i].profile)
          /\ loading' = LoadingAfter(tasks[i])
          /\ tasks' = [tasks EXCEPT ![i] = Finish(@, "returned")]
          /\ UNCHANGED error
       \/ \* the write failed: startup logs it; a sign-in stores the error
          \* and rethrows; the handler's promise rejects
          /\ error' = IF tasks[i].kind \in SignInKinds
                      THEN AuthErrorOf(tasks[i].kind, StorageError) ELSE error
          /\ loading' = LoadingAfter(tasks[i])
          /\ tasks' = [tasks EXCEPT ![i] = Fail(@)]
          /\ UNCHANGED stored
    /\ UNCHANGED <<user, session, backendSession, notifs>>

\* A removeItem that resolves without removing the key.
RemoveItemResolve_KeepsKey(i) ==
    /\ tasks[i].pc = "removeItem"
    /\ \/ /\ UNCHANGED stored
          /\ loading' = LoadingAfter(tasks[i])
          /\ tasks' = [tasks EXCEPT ![i] = Finish(@, "returned")]
          /\ UNCHANGED error
       \/ /\ error' = IF tasks[i].kind = "signOut"
                      THEN AuthErrorOf("signOut", StorageError) ELSE error
          /\ loading' = LoadingAfter(tasks[i])
          /\ tasks' = [tasks EXCEPT ![i] = Fail(@)]
          /\ UNCHANGED stored
    /\ UNCHANGED <<user, session, backendSession, notifs>>

\* signOut or a no-session handler resumes from `await safeStorage.removeItem`.
RemoveItemResolve(i) ==
    /\ tasks[i].pc = "removeItem"
    /\ \/ /\ stored' = NoItem
          /\ loading' = LoadingAfter(tasks[i])
          /\ tasks' = [tasks EXCEPT ![i] = Finish(@, "returned")]
          /\ UNCHANGED error
       \/ /\ error' = IF tasks[i].kind = "signOut"
                      THEN AuthErrorOf("signOut", StorageError) ELSE error
          /\ loading' = LoadingAfter(tasks[i])
          /\ tasks' = [tasks EXCEPT ![i] = Fail(@)]
          /\ UNCHANGED stored
    /\ UNCHANGED <<user, session, backendSession, notifs>>

\* ------------------------------------------------ refreshUser, clearError
\* refreshUser(): returns at once without a session, else issues the fetch.
CallRefreshUser ==
    /\ CanSpawn
    /\ IF session = None
       THEN tasks' = Append(tasks,
                Finish(NewTask("refreshUser", "start", None, <<>>), "returned"))
       ELSE tasks' = Spawn(NewTask("refreshUser", "fetch", session.user, <<"fetch">>))
    /\ UNCHANGED <<user, session, loading, error, stored, backendSession, notifs>>

\* refreshUser with a catch block that drops the user when the fetch fails.
RefreshFetchResolve_ClearsOnFailure(i) ==
    /\ tasks[i].kind = "refreshUser"
    /\ tasks[i].pc = "fetch"
    /\ \/ \E row \in DbRowsFor(tasks[i].p.id) :
            user' = transformDatabaseUser(row)
       \/ user' = None
    /\ tasks' = [tasks EXCEPT ![i] = Finish(@, "returned")]
    /\ UNCHANGED <<session, loading, error, stored, backendSession, notifs>>

\* refreshUser resumes from `await fetchUserWithRelations(session.user.id)`.
RefreshFetchResolve(i) ==
    /\ tasks[i].kind = "refreshUser"
    /\ tasks[i].pc = "fetch"
    /\ \/ \E row \in DbRowsFor(tasks[i].p.id) :
            user' = transformDatabaseUser(row)
       \/ UNCHANGED user
    /\ tasks' = [tasks EXCEPT ![i] = Finish(@, "returned")]
    /\ UNCHANGED <<session, loading, error, stored, backendSession, notifs>>

\* What the provider holds: its four state cells and the persisted key.
Cells ==
    [ user |-> user, session |-> session, loading |-> loading,
      error |-> error, stored |-> stored ]

\* A clearError that also drops the user.
clearError_DropsUser(st) == [st EXCEPT !.error = None, !.user = None]

\* clearError(): setError(null).
clearError(st) == [st EXCEPT !.error = None]

\* clearError() is called: it runs to its end in one step, issues no call.
ClearError ==
    LET st == clearError(Cells)
    IN  /\ user' = st.user
        /\ session' = st.session
        /\ loading' = st.loading
        /\ error' = st.error
        /\ stored' = st.stored
        /\ UNCHANGED <<backendSession, notifs, tasks>>

\* ------------------------------------------------------------ the backend
\* The backend ends the session on its own (expiry, revocation) and
\* announces it.
SessionExpired ==
    /\ backendSession # None
    /\ Len(notifs) < MaxQueue
    /\ backendSession' = None
    /\ notifs' = Append(notifs, None)
    /\ UNCHANGED <<user, session, loading, error, stored, tasks>>

\* The backend re-announces the session it holds (token refreshed).
TokenRefreshed ==
    /\ backendSession # None
    /\ Len(notifs) < MaxQueue
    /\ notifs' = Append(notifs, backendSession)
    /\ UNCHANGED <<user, session, loading, error, stored, backendSession, tasks>>

\* ----------------------------------------------------------- specification
TaskIds == 1..MaxTasks

SignInAuthResolves == \E i \in DOMAIN tasks : SignInAuthResolve(i)
SignOutAuthResolves == \E i \in DOMAIN tasks : SignOutAuthResolve(i)
RpcResolves == \E i \in DOMAIN tasks : RpcResolve(i)
FetchResolves == \E i \in DOMAIN tasks : FetchResolve(i)
SetItemResolves == \E i \in DOMAIN tasks : SetItemResolve(i)
RemoveItemResolves == \E i \in DOMAIN tasks : RemoveItemResolve(i)
RefreshFetchResolves == \E i \in DOMAIN tasks : RefreshFetchResolve(i)

Next ==
    \/ InitGetSessionResolve
    \/ Dispatch
    \/ StartSignInAnonymously
    \/ StartSignInWithEmail
    \/ StartSignUpWithEmail
    \/ StartSignOut
    \/ SignInAuthResolves
    \/ SignOutAuthResolves
    \/ RpcResolves
    \/ FetchResolves
    \/ SetItemResolves
    \/ RemoveItemResolves
    \/ CallRefreshUser
    \/ RefreshFetchResolves
    \/ ClearError
    \/ SessionExpired
    \/ TokenRefreshed

Spec == Init /\ [][Next]_vars

\* Every backend and storage call eventually returns: a task suspended at
\* an await is eventually resumed.
Resume(i) ==
    \/ i = 1 /\ InitGetSessionResolve
    \/ SignInAuthResolve(i)
    \/ SignOutAuthResolve(i)
    \/ RpcResolve(i)
    \/ FetchResolve(i)
    \/ SetItemResolve(i)
    \/ RemoveItemResolve(i)
    \/ RefreshFetchResolve(i)

FairSpec == Spec /\ \A i \in TaskIds : WF_vars(i \in DOMAIN tasks /\ Resume(i))

\* ------------------------------------------- the transform on its own
\* The startup has restored the session of a principal, its procedure call
\* has succeeded and its users query is in flight; the query's answer, one
\* of the rows of TransformRows, is on its way.
TransformInit ==
    \E p \in Principals : \E row \in TransformRows(p) :
        LET t0 == NewTask("initializeAuth", "getSession", None, <<"getSession">>)
            t1 == CallCreateOrUpdateUser(t0, p)
        IN  /\ user = None
            /\ session = SessionOf(p)
            /\ loading = TRUE
            /\ error = None
            /\ stored = NoItem
            /\ backendSession = SessionOf(p)
            /\ notifs = <<>>
            /\ tasks = << [t1 EXCEPT !.pc = "fetch",
                                     !.calls = Append(@, "fetch"),
                                     !.dbUser = row] >>

\* The query answers (with the row on its way, or with an error).
TransformFetchResolve ==
    \E i \in DOMAIN tasks : FetchResolveFrom(i, {tasks[i].dbUser})

TransformNext ==
    \/ TransformFetchResolve
    \/ SetItemResolves

TransformSpec == TransformInit /\ [][TransformNext]_vars

\* ------------------------------------------------ calls after the startup
\* The runs that begin when the startup has ended without a session.  The
\* ended startup task is not kept among the tasks, so that MaxTasks bounds
\* the calls and notification handlers that come after it: two sign-ins and
\* the handler of the first one's notification fit.
AfterStartupInit ==
    /\ user = None
    /\ session = None
    /\ loading = FALSE
    /\ error = None
    /\ backendSession = None
    /\ stored = NoItem
    /\ notifs = <<>>
    /\ tasks = <<>>

AfterStartupNext ==
    \/ Dispatch
    \/ StartSignInAnonymously
    \/ StartSignInWithEmail
    \/ StartSignUpWithEmail
    \/ StartSignOut
    \/ SignInAuthResolves
    \/ SignOutAuthResolves
    \/ RpcResolves
    \/ FetchResolves
    \/ SetItemResolves
    \/ RemoveItemResolves
    \/ CallRefreshUser
    \/ RefreshFetchResolves
    \/ ClearError
    \/ SessionExpired
    \/ TokenRefreshed

AfterStartupSpec == AfterStartupInit /\ [][AfterStartupNext]_vars

\* ------------------------------------------------------------ properties
\* Task i settles in this step (a refreshUser without a session is started
\* and settled in one step).
Finishes(i) ==
    /\ i \in DOMAIN tasks'
    /\ tasks'[i].pc = "done"
    /\ (i \in DOMAIN tasks => tasks[i].pc # "done")
Returns(i) == Finishes(i) /\ tasks'[i].res = "returned"
Raises(i) == Finishes(i) /\ tasks'[i].res = "raised"
\* Task i is called in this step.
Starts(i) == i \notin DOMAIN tasks /\ i \in DOMAIN tasks'
\* Task i runs in this step: it is called, or resumed from an await.
Runs(i) == Starts(i) \/ (i \in DOMAIN tasks /\ tasks'[i].pc # tasks[i].pc)

\* The tasks that can store a session or a user: startup, a sign-in or
\* sign-up, a handler of a notification that carries a session, a refresh.
Writers == SignInKinds \cup {"initializeAuth", "onAuthStateChange", "refreshUser"}

\* C1 as stated: whenever signOut() returns without raising, user and session
\* are null and "current_user_id" is absent, whatever else was in flight
\* while it ran.
C1_AsStated ==
    [][\A i \in TaskIds :
         (Returns(i) /\ tasks'[i].kind = "signOut")
           => (user' = None /\ session' = None /\ stored' = NoItem)]_vars

\* C1 amended: whenever signOut() returns without raising, and no startup,
\* sign-in, sign-up, refresh or session-carrying notification handler was in
\* flight at any moment while it ran, user and session are null and
\* "current_user_id" is absent.
C1_SignOutClears ==
    [][\A i \in TaskIds :
         (Returns(i) /\ tasks'[i].kind = "signOut"
            /\ tasks'[i].seen \cap Writers = {})
           => (user' = None /\ session' = None /\ stored' = NoItem)]_vars

\* A signOut() that returned after the startup had restored and persisted a
\* user, with no writer in flight beside it.
C1_Witness ==
    \E i \in DOMAIN tasks :
       /\ tasks[i].kind = "signOut"
       /\ tasks[i].pc = "done"
       /\ tasks[i].res = "returned"
       /\ tasks[i].seen \cap Writers = {}
       /\ tasks[1].calls = <<"getSession", "rpc", "fetch", "setItem">>
       /\ tasks[1].res = "returned"
       /\ user = None /\ session = None /\ stored = NoItem

\* A sign-in / sign-up whose backend call succeeded ends in this step
\* because createOrUpdateUser returned null.
MaterializationFails(i) ==
    /\ i \in DOMAIN tasks
    /\ tasks[i].kind \in SignInKinds
    /\ tasks[i].pc \in {"rpc", "fetch"}
    /\ Finishes(i)

C3_PersistedIdIsMaterializedId ==
    [][\A i \in TaskIds :
         /\ (i \in DOMAIN tasks /\ tasks[i].pc = "setItem"
               /\ Finishes(i) /\ tasks'[i].res = "returned" /\ ~tasks'[i].caught)
              => /\ tasks[i].profile # None
                 /\ stored' = tasks[i].profile.id
                 /\ stored' = DbIdOf(tasks[i].p.id)
         /\ (i \in DOMAIN tasks /\ tasks[i].pc = "fetch" /\ tasks'[i].pc = "setItem")
              => /\ user' = tasks'[i].profile
                 /\ user' # None]_vars

\* A sign-in by email has returned after materializing its user; the user
\* is in memory and the persisted id is its id.
C3_Witness ==
    \E i \in DOMAIN tasks :
       /\ tasks[i].kind = "signInWithEmail"
       /\ tasks[i].pc = "done"
       /\ tasks[i].res = "returned"
       /\ tasks[i].calls = <<"auth", "rpc", "fetch", "setItem">>
       /\ user # None
       /\ user.email \in Emails
       /\ stored = user.id

\* The awaits that are network calls: the session fetch, the auth calls, the
\* procedure call and the users query.
NetworkPcs == {"getSession", "auth", "rpc", "fetch"}

OperationKinds == SignInKinds \cup {"signOut"}

\* C5: a sign-in, sign-up or sign-out writes loading = true and error = null
\* in the step that issues its backend call (its first call); the step in
\* which it ends, on every path, writes loading = false; and, every call
\* returning, each such operation ends (a task that has ended stays ended,
\* so "once started it ends" is "from some point on, if started then ended").
C5_LoadingBracket ==
    /\ [][\A i \in TaskIds :
            /\ (Starts(i) /\ tasks'[i].kind \in OperationKinds)
                 => /\ loading' = TRUE
                    /\ error' = None
                    /\ tasks'[i].calls = <<"auth">>
            /\ (Finishes(i) /\ tasks'[i].kind \in OperationKinds)
                 => loading' = FALSE]_vars
    /\ \A i \in TaskIds :
          <>[]((i \in DOMAIN tasks /\ tasks[i].kind \in OperationKinds)
                 => tasks[i].pc = "done")

\* A sign-out that raised, a sign-in that returned after a failed
\* materialization: both ended and loading is false.
C5_Witness ==
    /\ \E i \in DOMAIN tasks :
          /\ tasks[i].kind = "signOut"
          /\ tasks[i].pc = "done"
          /\ tasks[i].res = "raised"
    /\ \E i \in DOMAIN tasks :
          /\ tasks[i].kind \in SignInKinds
          /\ tasks[i].pc = "done"
          /\ tasks[i].calls = <<"auth", "rpc", "fetch">>
    /\ loading = FALSE

\* C6: every call returning, the startup ends, and the step in which it ends
\* writes loading = false in every outcome; the session is stored in the
\* step that starts materialization; the startup writes "current_user_id"
\* only when resuming from setItem with a materialized user, whose id it
\* writes.
C6_Startup ==
    /\ <>(tasks[1].pc = "done")
    /\ [][/\ Finishes(1) => loading' = FALSE
          /\ (tasks[1].pc = "getSession" /\ tasks'[1].pc = "rpc")
               => /\ session' # None
                  /\ session' = backendSession
                  /\ session'.user = tasks'[1].p
          /\ (Runs(1) /\ stored' # stored)
               => /\ tasks[1].pc = "setItem"
                  /\ tasks[1].profile # None
                  /\ stored' = tasks[1].profile.id]_vars

\* The startup has ended after the session was restored and materialized
\* and the local write failed: the key is still absent and loading is false.
C6_Witness ==
    /\ tasks[1].pc = "done"
    /\ tasks[1].calls = <<"getSession", "rpc", "fetch", "setItem">>
    /\ tasks[1].caught
    /\ Len(tasks) = 1
    /\ session # None
    /\ user # None
    /\ stored = NoItem
    /\ loading = FALSE

\* C7: delivering a notification that carries no session makes user and
\* session null in the step that starts the handler, and the handler removes
\* "current_user_id" when it completes; no step of that handler writes
\* loading or error, and no signOut() is involved.
C7_NoSessionNotification ==
    [][\A i \in TaskIds :
         /\ (Starts(i) /\ Tag(tasks'[i]) = "onAuthStateChange(null)")
              => /\ user' = None
                 /\ session' = None
                 /\ tasks'[i].calls = <<"removeItem">>
         /\ (i \in DOMAIN tasks /\ Tag(tasks[i]) = "onAuthStateChange(null)"
               /\ Returns(i))
              => stored' = NoItem
         /\ (i \in DOMAIN tasks' /\ tasks'[i].kind = "onAuthStateChange"
               /\ tasks'[i].calls = <<"removeItem">> /\ Runs(i))
              => (loading' = loading /\ error' = error)]_vars

\* The startup restored and persisted a user; then, with no signOut() ever
\* called, a no-session notification was handled: user, session and the key
\* are gone.
C7_Witness ==
    /\ Len(tasks) = 2
    /\ tasks[1].calls = <<"getSession", "rpc", "fetch", "setItem">>
    /\ tasks[1].res = "returned" /\ ~tasks[1].caught
    /\ tasks[2].kind = "onAuthStateChange"
    /\ tasks[2].calls = <<"removeItem">>
    /\ tasks[2].pc = "done" /\ tasks[2].res = "returned"
    /\ tasks[2].seen = {}
    /\ user = None /\ session = None /\ stored = NoItem

\* C8 as stated: the session and the user in memory never belong to
\* different principals.
C8_AsStated ==
    (session # None /\ user # None) => user.id = DbIdOf(session.user.id)

\* The default code of each sign-in / sign-up, as the specification lists them.
ExpectedDefaultCode(kind) ==
    CASE kind = "signInAnonymously" -> "auth/anonymous-failed"
      [] kind = "signInWithEmail"   -> "auth/sign-in-failed"
      [] kind = "signUpWithEmail"   -> "auth/sign-up-failed"

\* C9: when the backend auth call of a sign-in / sign-up fails, the
\* operation stores {message, code, originalError} with the backend's code if
\* it has one and else the operation's default code, raises to its caller,
\* has issued no call but the auth call, and leaves user, session and the
\* persisted id unchanged.
C9_AuthFailure ==
    [][\A i \in TaskIds :
         (i \in DOMAIN tasks /\ tasks[i].kind \in SignInKinds
            /\ tasks[i].pc = "auth" /\ Finishes(i) /\ tasks'[i].res # "returned")
           => /\ error' # None
              /\ DOMAIN error' = {"message", "code", "originalError"}
              /\ error'.originalError \in BackendErrors
              /\ error'.code = IF error'.originalError.code # ""
                               THEN error'.originalError.code
                               ELSE ExpectedDefaultCode(tasks[i].kind)
              /\ tasks'[i].res = "raised"
              /\ tasks'[i].calls = <<"auth">>
              /\ UNCHANGED <<user, session, stored>>]_vars

\* A sign-up has raised with the backend's own code while the user restored
\* at startup, its session and its persisted id are still in place.
C9_Witness ==
    \E i \in DOMAIN tasks :
       /\ tasks[i].kind = "signUpWithEmail"
       /\ tasks[i].pc = "done"
       /\ tasks[i].res = "raised"
       /\ tasks[i].calls = <<"auth">>
       /\ error # None
       /\ error.code = "invalid_credentials"
       /\ user # None /\ session # None /\ stored = user.id

\* signOut's backend call fails in this step.
SignOutFails(i) ==
    /\ i \in DOMAIN tasks
    /\ tasks[i].kind = "signOut"
    /\ tasks[i].pc = "auth"
    /\ Finishes(i)

\* C10 as stated: when the backend sign-out call fails, error has the code
\* "auth/sign-out-failed", the failure is raised, and user, session and the
\* persisted id are unchanged.
C10_AsStated ==
    [][\A i \in TaskIds :
         SignOutFails(i)
           => /\ error' # None
              /\ error'.code = "auth/sign-out-failed"
              /\ tasks'[i].res = "raised"
              /\ UNCHANGED <<user, session, stored>>]_vars

\* C10 amended: when the backend sign-out call fails, error has the code the
\* backend supplied if there is one and "auth/sign-out-failed" otherwise,
\* the failure is raised, and user, session and the persisted id are
\* unchanged.
C10_SignOutFailure ==
    [][\A i \in TaskIds :
         SignOutFails(i)
           => /\ error' # None
              /\ error'.originalError \in BackendErrors
              /\ error'.code = IF error'.originalError.code # ""
                               THEN error'.originalError.code
                               ELSE "auth/sign-out-failed"
              /\ tasks'[i].res = "raised"
              /\ tasks'[i].calls = <<"auth">>
              /\ UNCHANGED <<user, session, stored>>]_vars

\* A signOut() has raised on a backend failure without a code: the default
\* code is stored and the user, its session and its persisted id remain.
C10_Witness ==
    \E i \in DOMAIN tasks :
       /\ tasks[i].kind = "signOut"
       /\ tasks[i].pc = "done"
       /\ tasks[i].res = "raised"
       /\ tasks[i].calls = <<"auth">>
       /\ error # None
       /\ error.code = "auth/sign-out-failed"
       /\ user # None /\ session # None /\ stored = user.id

\* ---------------------------------------------------------------------------
\* C11  refreshUser() without a session in memory issues no backend call and
\*      changes nothing.  With one it issues exactly one user fetch, for the
\*      session's principal, and no RPC; when that fetch resolves, session,
\*      loading, error and the persisted id are as they were, user is either
\*      as it was or the transform of a row of that principal, and the call
\*      returns without raising.
C11_RefreshUser ==
    [][\A i \in TaskIds :
          /\ (Starts(i) /\ tasks'[i].kind = "refreshUser") =>
                /\ UNCHANGED <<user, session, loading, error, stored>>
                /\ IF session = None
                   THEN /\ tasks'[i].pc = "done"
                        /\ tasks'[i].res = "returned"
                        /\ tasks'[i].calls = <<>>
                   ELSE /\ tasks'[i].pc = "fetch"
                        /\ tasks'[i].calls = <<"fetch">>
                        /\ tasks'[i].p = session.user
          /\ (i \in DOMAIN tasks /\ tasks[i].kind = "refreshUser" /\ Runs(i)) =>
                /\ Returns(i)
                /\ tasks'[i].calls = <<"fetch">>
                /\ UNCHANGED <<session, loading, error, stored>>
                /\ \/ user' = user
                   \/ user' \in {transformDatabaseUser(row) :
                                    row \in DbRowsFor(tasks[i].p.id)}
      ]_vars

\* A refreshUser call that replaced the user kept by a failed startup write:
\* the session is in memory, the startup's storage write failed and so the
\* key is absent, and the refresh returned after its single fetch.
C11_Witness ==
    /\ Len(tasks) = 2
    /\ tasks[1].kind = "initializeAuth" /\ tasks[1].pc = "done"
    /\ tasks[2].kind = "refreshUser" /\ tasks[2].pc = "done"
    /\ tasks[2].res = "returned" /\ tasks[2].calls = <<"fetch">>
    /\ session # None /\ user # None /\ user.points # None
    /\ stored = NoItem /\ loading = FALSE /\ error = None

\* ---------------------------------------------------------------------------
\* The kinds of task that never write error.
ErrorSilentKinds == {"initializeAuth", "onAuthStateChange", "refreshUser"}

\* C12  error changes only in three kinds of step: a clearError() call, which
\*      sets it to null and runs no task; the start of a sign-in, sign-up or
\*      sign-out, which sets it to null; and the catch block of a sign-in,
\*      sign-up or sign-out, which sets it to a non-null value and re-raises.
\*      No step of the startup, of a notification handler or of refreshUser
\*      changes it, and neither does a failed materialization.
C12_ErrorPersists ==
    [][/\ error' # error =>
            \/ error' = None /\ tasks' = tasks
            \/ \E i \in TaskIds :
                  /\ Starts(i) /\ tasks'[i].kind \in OperationKinds
                  /\ error' = None
            \/ \E i \in TaskIds :
                  /\ Raises(i) /\ tasks'[i].kind \in OperationKinds
                  /\ tasks'[i].caught
                  /\ error' # None
       /\ \A i \in TaskIds :
            /\ (Runs(i) /\ tasks'[i].kind \in ErrorSilentKinds) => error' = error
            /\ MaterializationFails(i) => error' = error
      ]_vars

\* An operation that nothing overlapped failed and stored its error; a
\* notification handler or a refreshUser called later has run to its end,
\* and the error is still there.
C12_Witness ==
    \E i, j \in DOMAIN tasks :
        /\ i < j
        /\ tasks[i].kind \in OperationKinds /\ tasks[i].pc = "done"
        /\ tasks[i].res = "raised" /\ tasks[i].caught /\ tasks[i].seen = {}
        /\ tasks[j].kind \in {"onAuthStateChange", "refreshUser"}
        /\ tasks[j].pc = "done" /\ tasks[j].calls # <<>>
        /\ error # None

\* ---------------------------------------------------------------------------
\* C13  A clearError() call leaves error null and user, session, loading and
\*      the persisted id as they were; it starts no task and issues no
\*      backend or storage call.  Calling it twice gives what calling it once
\*      gives, and calling it when error is already null changes nothing.
C13_ClearError ==
    /\ [](/\ clearError(clearError(Cells)) = clearError(Cells)
          /\ clearError(Cells).error = None
          /\ error = None => clearError(Cells) = Cells)
    /\ [][ClearError =>
            /\ error' = None
            /\ UNCHANGED <<user, session, loading, stored>>
            /\ UNCHANGED <<tasks, backendSession, notifs>>]_vars

\* The last operation called failed and stored its error, and error is null
\* again: nothing but a clearError() call after the failure clears it.  A
\* user and a session are in memory and the key is present.
C13_Witness ==
    /\ Len(tasks) = 2
    /\ tasks[2].kind \in OperationKinds /\ tasks[2].pc = "done"
    /\ tasks[2].res = "raised" /\ tasks[2].caught
    /\ tasks[1].pc = "done"
    /\ error = None
    /\ user # None /\ session # None /\ stored # NoItem /\ loading = FALSE

Transformed(i) == tasks[i].pc = "setItem" /\ tasks[i].dbUser # None

\* C15  For every user_points row with level L and total P, the derived user
\*      has level L, or 1 when L is null or 0, and total P, or 0 when P is
\*      null; its levelTitle is the (min(L-1, 9))-th of the ten titles,
\*      counted from 0, so every level from 10 up has the last title; and its
\*      nextLevelAt is 100 * (floor(P/100) + 1): a multiple of 100, above P
\*      and at most 100 above it.
C15_LevelAndThreshold ==
    \A i \in DOMAIN tasks :
        (Transformed(i) /\ tasks[i].dbUser.points # None) =>
            LET row == tasks[i].dbUser.points
                out == tasks[i].profile.points
                L == IF row.level = None \/ row.level = Some(0)
                     THEN 1 ELSE row.level.val
                P == IF row.total_points = None THEN 0 ELSE row.total_points.val
                k == IF L - 1 < 9 THEN L - 1 ELSE 9
            IN  /\ out.level = L
                /\ out.total = P
                /\ out.levelTitle = titles[k + 1]
                /\ L >= 10 => out.levelTitle = "PharmaGuide Legend"
                /\ L = 1 => out.levelTitle = "Health Novice"
                /\ out.nextLevelAt = 100 * ((P \div 100) + 1)
                /\ out.nextLevelAt % 100 = 0
                /\ out.nextLevelAt > P
                /\ out.nextLevelAt - P <= 100
                /\ user = tasks[i].profile

\* A row of level 12 with 200 points was transformed: the title is the last
\* one and the threshold is 300, not 200.
C15_Witness ==
    /\ Transformed(1)
    /\ tasks[1].dbUser.points # None
    /\ tasks[1].dbUser.points.level = Some(12)
    /\ tasks[1].dbUser.points.total_points = Some(200)
    /\ user # None
    /\ user.points.levelTitle = "PharmaGuide Legend"
    /\ user.points.nextLevelAt = 300

\* ---------------------------------------------------------------------------
\* C16  The transform gives a user for every row, whatever sub-records and
\*      columns are present.  Identity and timestamps are the row's.  A
\*      profile list that is absent is empty and absent genetics are null; a
\*      present one is the row's.  A preference that is absent or empty is
\*      "concise", "mid" or "safety", and absent notification settings are
\*      push and email enabled with daily reminders.  points and streaks are
\*      undefined exactly when the row has no such sub-record, and no title
\*      is undefined.  The user in memory, the task's local profile and a
\*      further application of the transform to the row are equal.
C16_TransformDefaults ==
    \A i \in DOMAIN tasks :
        Transformed(i) =>
            LET r == tasks[i].dbUser
                u == tasks[i].profile
                absent(rec, f) == rec = None \/ rec[f] = None
                blank(rec, f) == absent(rec, f) \/ rec[f] = Some("")
                list(f) == IF absent(r.profile, f) THEN <<>> ELSE r.profile[f].val
                pref(f, d) == IF blank(r.preferences, f) THEN d
                              ELSE r.preferences[f].val
            IN  /\ u # None
                /\ u.id = r.id /\ u.email = r.email
                /\ u.is_anonymous = r.is_anonymous
                /\ u.createdAt = r.created_at /\ u.updatedAt = r.updated_at
                /\ u.profile.healthGoals = list("health_goals")
                /\ u.profile.conditions = list("conditions")
                /\ u.profile.medications = list("medications")
                /\ u.profile.allergies = list("allergies")
                /\ u.profile.genetics = IF absent(r.profile, "genetics") THEN None
                                        ELSE r.profile.genetics.val
                /\ r.profile = None =>
                      /\ u.profile.firstName = None /\ u.profile.lastName = None
                      /\ u.profile.age = None /\ u.profile.gender = None
                /\ u.preferences.aiResponseStyle = pref("ai_response_style", "concise")
                /\ u.preferences.budgetRange = pref("budget_range", "mid")
                /\ u.preferences.primaryFocus = pref("primary_focus", "safety")
                /\ u.preferences.notifications =
                      IF absent(r.preferences, "notifications")
                      THEN [push_enabled |-> TRUE, email_enabled |-> TRUE,
                            reminder_frequency |-> "daily"]
                      ELSE r.preferences.notifications.val
                /\ (u.points = None) <=> (r.points = None)
                /\ u.points # None => u.points.levelTitle # "undefined"
                /\ (u.streaks = None) <=> (r.streaks = None)
                /\ u.streaks # None =>
                      /\ u.streaks.current \in Nat /\ u.streaks.longest \in Nat
                      /\ absent(r.streaks, "current_streak") => u.streaks.current = 0
                      /\ absent(r.streaks, "longest_streak") => u.streaks.longest = 0
                /\ user = u
                /\ transformDatabaseUser(r) = user

\* A row with a profile and preferences whose columns are all null and with
\* no points row was transformed: the lists are empty, the preferences are
\* the fixed ones and points are undefined.
C16_Witness ==
    /\ Transformed(1)
    /\ tasks[1].dbUser.profile # None
    /\ tasks[1].dbUser.profile.health_goals = None
    /\ tasks[1].dbUser.preferences # None
    /\ tasks[1].dbUser.preferences.ai_response_style = None
    /\ tasks[1].dbUser.points = None
    /\ user # None
    /\ user.points = None
    /\ user.profile.healthGoals = <<>>
    /\ user.preferences.aiResponseStyle = "concise"

\* ---------------------------------------------------------------------------
\* The tasks that materialize a principal (call createOrUpdateUser).
MaterializingKinds == SignInKinds \cup {"initializeAuth", "onAuthStateChange"}

\* C17  A task that materializes a principal issues the procedure call first,
\*      with the principal's id and email and with p_is_anonymous true
\*      exactly when the principal has no email, and issues the users query
\*      only in the step in which the procedure call succeeded.  It holds a
\*      user only after both calls, each issued once.  When the procedure
\*      call or the query fails it issues no further call, holds no user,
\*      stores null as the user and returns to its caller without raising.
C17_Materialization ==
    /\ [](\A i \in DOMAIN tasks :
            LET t == tasks[i]
                count(x) == Cardinality({k \in DOMAIN t.calls : t.calls[k] = x})
                at(x) == CHOOSE k \in DOMAIN t.calls : t.calls[k] = x
            IN  t.kind \in MaterializingKinds =>
                  /\ count("rpc") <= 1 /\ count("fetch") <= 1
                  /\ count("fetch") = 1 =>
                        count("rpc") = 1 /\ at("rpc") + 1 = at("fetch")
                  /\ t.pc = "rpc" => count("rpc") = 1 /\ count("fetch") = 0
                  /\ t.pc \in {"rpc", "fetch"} =>
                        /\ t.rpcArgs # None
                        /\ t.rpcArgs.p_auth_id = t.p.id
                        /\ t.rpcArgs.p_email = t.p.email
                        /\ t.rpcArgs.p_is_anonymous = (t.p.email = NoEmail)
                  /\ t.profile # None =>
                        count("rpc") = 1 /\ count("fetch") = 1)
    /\ [][\A i \in DOMAIN tasks :
            (tasks[i].kind \in MaterializingKinds /\ Runs(i)) =>
              /\ tasks[i].pc = "rpc" =>
                    \/ /\ tasks'[i].pc = "fetch"
                       /\ tasks'[i].calls = Append(tasks[i].calls, "fetch")
                       /\ tasks'[i].profile = None
                       /\ user' = user
                    \/ /\ Returns(i) /\ ~tasks'[i].caught
                       /\ tasks'[i].calls = tasks[i].calls
                       /\ user' = None
              /\ tasks[i].pc = "fetch" =>
                    \/ /\ tasks'[i].pc = "setItem"
                       /\ tasks'[i].profile # None
                       /\ tasks'[i].profile.id = DbIdOf(tasks[i].p.id)
                       /\ user' = tasks'[i].profile
                    \/ /\ Returns(i) /\ ~tasks'[i].caught
                       /\ tasks'[i].calls = tasks[i].calls
                       /\ user' = None
      ]_vars

\* An anonymous sign-in whose procedure call, issued with p_is_anonymous
\* true and a null email, has succeeded and whose users query is in flight,
\* next to a startup whose procedure call failed: it returned after two calls.
C17_Witness ==
    /\ Len(tasks) >= 2
    /\ tasks[1].pc = "done" /\ tasks[1].res = "returned" /\ ~tasks[1].caught
    /\ tasks[1].calls = <<"getSession", "rpc">>
    /\ tasks[2].kind = "signInAnonymously" /\ tasks[2].pc = "fetch"
    /\ tasks[2].calls = <<"auth", "rpc", "fetch">>
    /\ tasks[2].rpcArgs.p_is_anonymous = TRUE
    /\ tasks[2].rpcArgs.p_email = NoEmail

\* ---------------------------------------------------------------------------
\* Sign-ins i and j overlapped: each was in flight while the other ran.  Any
\* other task is the handler of a notification of theirs that is still in
\* its materialization, so it has written neither user nor the persisted id.
Overlapped(i, j) ==
    /\ i # j
    /\ tasks[i].kind \in SignInKinds /\ tasks[j].kind \in SignInKinds
    /\ tasks[j].kind \in tasks[i].seen /\ tasks[i].kind \in tasks[j].seen
    /\ \A k \in DOMAIN tasks \ {i, j} :
          /\ tasks[k].kind = "onAuthStateChange"
          /\ tasks[k].pc \in {"rpc", "fetch"}

\* C18 as stated: when two sign-ins overlapped and both succeeded, then at
\* the moment the second of them finishes the user in memory and the
\* persisted id are those of the one that finishes last.
C18_AsStated ==
    [][\A i, j \in DOMAIN tasks :
         (/\ Overlapped(i, j)
          /\ tasks[j].pc = "done" /\ tasks[j].res = "returned"
          /\ tasks[j].calls = <<"auth", "rpc", "fetch", "setItem">>
          /\ tasks[i].pc = "setItem" /\ Returns(i))
           => /\ user' = tasks[i].profile
              /\ stored' = tasks[i].profile.id]_vars

\* C18 amended: a sign-in called while another one is in flight issues its
\* backend call all the same.  Each cell then has its own last writer: the
\* step in which the users query of a sign-in resolves with a row stores
\* that sign-in's user (of its own principal) in memory and leaves the
\* persisted id alone, and the step in which its storage write resolves
\* writes that user's id and leaves the user in memory alone.  So the user
\* in memory is the one of the sign-in whose query resolved last and the
\* persisted id the one of the sign-in whose write resolved last.
C18_LastWriterPerCell ==
    [][\A i \in TaskIds :
         /\ (Starts(i) /\ tasks'[i].kind \in SignInKinds)
              => tasks'[i].pc = "auth" /\ tasks'[i].calls = <<"auth">>
         /\ (/\ i \in DOMAIN tasks /\ Runs(i)
             /\ tasks[i].kind \in SignInKinds
             /\ tasks[i].seen \cap SignInKinds # {})
              => /\ (tasks[i].pc = "fetch" /\ tasks'[i].pc = "setItem")
                      => /\ user' = tasks'[i].profile
                         /\ user'.id = DbIdOf(tasks[i].p.id)
                         /\ user'.is_anonymous =
                               (tasks[i].kind = "signInAnonymously")
                         /\ stored' = stored
                 /\ (tasks[i].pc = "setItem" /\ Returns(i))
                      => /\ stored' = tasks[i].profile.id
                         /\ user' = user
      ]_vars

\* Two sign-ins overlapped and both have returned after all their calls; no
\* other task has written the user or the persisted id; and the persisted
\* id is not the id of the user in memory.
C18_Witness ==
    /\ \E i, j \in DOMAIN tasks :
          /\ Overlapped(i, j)
          /\ tasks[i].res = "returned" /\ tasks[j].res = "returned"
          /\ tasks[i].calls = <<"auth", "rpc", "fetch", "setItem">>
          /\ tasks[j].calls = <<"auth", "rpc", "fetch", "setItem">>
          /\ tasks[i].pc = "done" /\ tasks[j].pc = "done"
    /\ user # None /\ stored # NoItem
    /\ user.id # stored

\* ---------------------------------------------------------------------------
\* No operation and no notification handler is in flight.
Idle == \A i \in DOMAIN tasks : tasks[i].pc = "done"

\* C19 as stated: whenever no operation and no notification handler is in
\* flight, "current_user_id" is absent or holds the id of the user in memory.
C19_AsStated ==
    Idle => (stored = NoItem \/ (user # None /\ stored = user.id))


\* The last call task t issued.
LastCall(t) == IF t.calls = <<>> THEN "none" ELSE t.calls[Len(t.calls)]

\* Every task so far ran alone: none was in flight while another ran.
Sequential == \A i \in DOMAIN tasks : tasks[i].seen = {}

\* C19 amended: "current_user_id" changes in two kinds of step only: the
\* storage write of a task that materialized a user resolves and the key
\* becomes that user's id, or the removal issued by signOut or by a
\* no-session notification handler resolves and the key becomes absent.  A
\* failed materialization stores null as the user and leaves the key as it
\* was, so the key can hold a previous user's id while user is null.  When
\* no task is in flight and no two tasks ever overlapped, the key equals the
\* id of the user in memory if the task that ended last materialized and
\* persisted a user, and is absent, with user null, if that task removed it.
C19_KeyFollowsWrites ==
    /\ []((Idle /\ Sequential /\ tasks # <<>>) =>
            LET t == tasks[Len(tasks)]
            IN  /\ (/\ t.kind \in MaterializingKinds
                    /\ LastCall(t) = "setItem"
                    /\ t.res = "returned" /\ ~t.caught)
                     => (user # None /\ stored = user.id)
                /\ (/\ LastCall(t) = "removeItem"
                    /\ t.res = "returned" /\ ~t.caught)
                     => (user = None /\ stored = NoItem))
    /\ [][/\ stored' # stored =>
               \E i \in DOMAIN tasks :
                  /\ Returns(i)
                  /\ \/ /\ tasks[i].pc = "setItem"
                        /\ tasks[i].kind \in MaterializingKinds
                        /\ stored' = tasks[i].profile.id
                        /\ stored' = DbIdOf(tasks[i].p.id)
                     \/ /\ tasks[i].pc = "removeItem"
                        /\ tasks[i].kind \in {"signOut", "onAuthStateChange"}
                        /\ stored' = NoItem
          /\ \A i \in DOMAIN tasks :
                (/\ tasks[i].kind \in MaterializingKinds
                 /\ tasks[i].pc \in {"rpc", "fetch"}
                 /\ Finishes(i))
                  => (stored' = stored /\ user' = None)
         ]_vars

\* The startup restored and persisted a user; then a sign-in, alone, got its
\* backend success and failed to materialize: user is null and the key still
\* holds the restored user's id, with no task in flight.
C19_Witness ==
    /\ Len(tasks) = 2 /\ Idle /\ Sequential
    /\ tasks[1].res = "returned" /\ ~tasks[1].caught
    /\ LastCall(tasks[1]) = "setItem"
    /\ tasks[2].kind \in SignInKinds /\ tasks[2].res = "returned"
    /\ LastCall(tasks[2]) \in {"rpc", "fetch"}
    /\ user = None
    /\ stored # NoItem

\* ---------------------------------------------------------------------------
\* C20 as stated: whenever the user in memory is non-null, the session in
\* memory is non-null.
C20_AsStated ==
    user # None => session # None

====
